---- MODULE Spec2Model ----
(***************************************************************************)
(* Model of the chat endpoint of metaplex-genesis-mcp-demo:                *)
(*   - lib/mcp.ts        (src/unnamed/part_001): the memoized MCP client   *)
(*   - app/api/chat/route.ts (src/README.md, lines 98-411): POST handler,  *)
(*     the execute_mcp_tool bridge, the transaction extractor and the      *)
(*     response classifier.                                                *)
(*                                                                         *)
(* Text is modelled as a sequence of lexemes.  A lexeme is a record        *)
(* [t, v]: t is the lexeme's characters, and for a quoted JSON string      *)
(* (t = "str") v is the lexeme sequence of the string's content, so that   *)
(* JSON nested in a JSON string (the double encoding of MCP results) is a  *)
(* lexeme sequence inside a lexeme.                                        *)
(***************************************************************************)
EXTENDS Integers, Sequences, FiniteSets, TLC

\* ------------------------------------------------------------------------
\* Bounds of the model (not program constants)
\* ------------------------------------------------------------------------
\* rounds of one request in which the model and the bridge draw from the
\* full input sets (and callTool may throw); in the later rounds, up to
\* MaxSteps, the model passes PlainArgs, the bridge returns ResultPlain and
\* the final text is one of CapTexts
MaxVaried == 2
\* number of concurrent requests in the concurrent specification
NumConc == 2

\* ------------------------------------------------------------------------
\* Program constants
\* ------------------------------------------------------------------------
\* maxSteps: 5
MaxSteps == 5

\* ------------------------------------------------------------------------
\* Lexemes and text
\* ------------------------------------------------------------------------
P(s) == [t |-> s, v |-> <<>>]
S(inner) == [t |-> "str", v |-> inner]
Q(s) == S(<<P(s)>>)
NL == P("\n")

LBrace == P("{")
RBrace == P("}")
LBrack == P("[")
RBrack == P("]")
Colon == P(":")
Comma == P(",")
\* the opening of a fenced json block (three backquotes followed by json)
FenceJson == P("<fence>json")
\* three backquotes
Fence == P("<fence>")

\* lexemes that are JSON number literals
NumLexemes == {"0", "5"}
\* lexemes that are white space for JSON.parse and for \s
WsLexemes == {"\n"}

\* String.prototype.startsWith("Error:") on a lexeme sequence
StartsWithErrorColon(str) ==
    /\ str # <<>>
    /\ str[1].t \in {"Error:"}

\* String.prototype.startsWith("Error executing")
StartsWithErrorExecuting(str) ==
    /\ str # <<>>
    /\ str[1].t \in {"Error executing tool: "}

\* the lexemes whose characters contain "Error" (case-sensitive)
ErrorLexemes == {"Error:", "Error executing tool: ", "Unexpected Error"}

\* String.prototype.includes("Error"): the raw characters include the
\* content of quoted strings
RECURSIVE IncludesError(_)
IncludesError(str) ==
    \E i \in 1..Len(str) :
        \/ str[i].t \in ErrorLexemes
        \/ str[i].t = "str" /\ IncludesError(str[i].v)

\* Array.prototype.join on a sequence of texts
RECURSIVE Join(_, _)
Join(texts, sep) ==
    IF texts = <<>> THEN <<>>
    ELSE IF Len(texts) = 1 THEN texts[1]
    ELSE texts[1] \o sep \o Join(Tail(texts), sep)

\* ------------------------------------------------------------------------
\* JSON values, JSON.parse and JSON.stringify
\* ------------------------------------------------------------------------
\* A value is [k, s, e]: k the kind, s the content of a string (or the
\* literal of a number), e the entries [key, val] of an object or array
\* (an array entry has the empty key).
Null == [k |-> "null", s |-> <<>>, e |-> <<>>]
Undefined == [k |-> "undefined", s |-> <<>>, e |-> <<>>]
Str(s) == [k |-> "str", s |-> s, e |-> <<>>]
Num(n) == [k |-> "num", s |-> <<P(n)>>, e |-> <<>>]
Obj(entries) == [k |-> "obj", s |-> <<>>, e |-> entries]
Arr(entries) == [k |-> "arr", s |-> <<>>, e |-> entries]
Entry(key, val) == [key |-> key, val |-> val]

ParseFail == [ok |-> FALSE, val |-> Undefined, rest |-> <<>>]
ParseOk(val, rest) == [ok |-> TRUE, val |-> val, rest |-> rest]

RECURSIVE SkipWs(_)
SkipWs(toks) ==
    IF toks # <<>> /\ Head(toks).t \in WsLexemes THEN SkipWs(Tail(toks))
    ELSE toks

RECURSIVE ParseValue(_)
RECURSIVE ParseMembers(_, _)
RECURSIVE ParseElements(_, _)

\* the members of an object after "{" or after ","
ParseMembers(toks, acc) ==
    LET t0 == SkipWs(toks) IN
    IF t0 = <<>> \/ Head(t0).t # "str" THEN ParseFail
    ELSE
        LET t1 == SkipWs(Tail(t0)) IN
        IF t1 = <<>> \/ Head(t1).t # ":" THEN ParseFail
        ELSE
            LET pv == ParseValue(Tail(t1)) IN
            IF ~pv.ok THEN ParseFail
            ELSE
                LET t2 == SkipWs(pv.rest)
                    acc2 == Append(acc, Entry(Head(t0).v, pv.val))
                IN
                IF t2 = <<>> THEN ParseFail
                ELSE IF Head(t2).t = "}" THEN ParseOk(Obj(acc2), Tail(t2))
                ELSE IF Head(t2).t = "," THEN ParseMembers(Tail(t2), acc2)
                ELSE ParseFail

\* the elements of an array after "[" or after ","
ParseElements(toks, acc) ==
    LET pv == ParseValue(toks) IN
    IF ~pv.ok THEN ParseFail
    ELSE
        LET t2 == SkipWs(pv.rest)
            acc2 == Append(acc, Entry(<<>>, pv.val))
        IN
        IF t2 = <<>> THEN ParseFail
        ELSE IF Head(t2).t = "]" THEN ParseOk(Arr(acc2), Tail(t2))
        ELSE IF Head(t2).t = "," THEN ParseElements(Tail(t2), acc2)
        ELSE ParseFail

ParseValue(toks) ==
    LET t0 == SkipWs(toks) IN
    IF t0 = <<>> THEN ParseFail
    ELSE
        LET h == Head(t0)
            r == Tail(t0)
        IN
        IF h.t = "str" THEN ParseOk(Str(h.v), r)
        ELSE IF h.t = "null" THEN ParseOk(Null, r)
        ELSE IF h.t \in NumLexemes THEN ParseOk(Num(h.t), r)
        ELSE IF h.t = "{" THEN
            LET r1 == SkipWs(r) IN
            IF r1 # <<>> /\ Head(r1).t = "}" THEN ParseOk(Obj(<<>>), Tail(r1))
            ELSE ParseMembers(r, <<>>)
        ELSE IF h.t = "[" THEN
            LET r1 == SkipWs(r) IN
            IF r1 # <<>> /\ Head(r1).t = "]" THEN ParseOk(Arr(<<>>), Tail(r1))
            ELSE ParseElements(r, <<>>)
        ELSE ParseFail

\* JSON.parse: ok = FALSE models the SyntaxError it throws
JSONParse(str) ==
    LET pv == ParseValue(str) IN
    IF pv.ok /\ SkipWs(pv.rest) = <<>> THEN [ok |-> TRUE, val |-> pv.val]
    ELSE [ok |-> FALSE, val |-> Undefined]

RECURSIVE JSONStringify(_)
RECURSIVE StringifyEntries(_, _)
StringifyEntries(entries, isObj) ==
    IF entries = <<>> THEN <<>>
    ELSE
        LET e1 == (IF isObj THEN <<S(entries[1].key), Colon>> ELSE <<>>)
                      \o JSONStringify(entries[1].val)
        IN
        IF Len(entries) = 1 THEN e1
        ELSE e1 \o <<Comma>> \o StringifyEntries(Tail(entries), isObj)

\* JSON.stringify(value)
JSONStringify(val) ==
    IF val.k = "str" THEN <<S(val.s)>>
    ELSE IF val.k = "num" THEN val.s
    ELSE IF val.k = "obj" THEN
        <<LBrace>> \o StringifyEntries(val.e, TRUE) \o <<RBrace>>
    ELSE IF val.k = "arr" THEN
        <<LBrack>> \o StringifyEntries(val.e, FALSE) \o <<RBrack>>
    ELSE <<P("null")>>

RECURSIVE PrettyEntries(_)
PrettyEntries(entries) ==
    IF entries = <<>> THEN <<>>
    ELSE
        LET e1 == <<S(entries[1].key), Colon>> \o JSONStringify(entries[1].val)
        IN
        IF Len(entries) = 1 THEN e1
        ELSE e1 \o <<Comma, NL>> \o PrettyEntries(Tail(entries))

\* JSON.stringify(value, null, 2) of an object: the same lexemes with
\* line breaks between the members
JSONStringifyPretty(val) ==
    IF val.k = "obj" /\ val.e # <<>> THEN
        <<LBrace, NL>> \o PrettyEntries(val.e) \o <<NL, RBrace>>
    ELSE JSONStringify(val)

\* property access value.name of a non-null value: the last entry with
\* that key of an object, undefined otherwise
Get(val, name) ==
    LET idx == {i \in 1..Len(val.e) : val.e[i].key = <<P(name)>>} IN
    IF val.k = "obj" /\ idx # {} THEN
        val.e[CHOOSE i \in idx : \A j \in idx : j <= i].val
    ELSE Undefined

\* JavaScript truthiness
Truthy(val) ==
    \/ val.k \in {"obj", "arr"}
    \/ val.k = "str" /\ val.s # <<>>
    \/ val.k = "num" /\ val.s # <<P("0")>>

\* ------------------------------------------------------------------------
\* execute_mcp_tool.execute: the pure parts
\* ------------------------------------------------------------------------
\* content items and results of the bridge's callTool
TextItem(text) == [type |-> "text", text |-> text]
ImageItem == [type |-> "image", text |-> <<>>]
ToolResult(isError, hasContent, content) ==
    [isError |-> isError, hasContent |-> hasContent, content |-> content]

ErrorArgumentsText ==
    <<P("Error:"), P(" arguments must be a valid JSON string.")>>
UnknownErrorText == <<P("Tool execution failed with an unknown error.")>>
NoContentText ==
    <<P("Tool executed successfully but returned no content.")>>
ErrorExecutingText(message) == <<P("Error executing tool: ")>> \o message

\* let args = {}; try { args = JSON.parse(argsStr) } catch { return ... }
\* call: whether execute goes on to callMcpTool; out: the string returned
\* to the model when it does not
ExecuteParseArgsCallsAnyway(argsStr) ==
    LET p == JSONParse(argsStr) IN
    [call |-> TRUE, args |-> IF p.ok THEN p.val ELSE Obj(<<>>), out |-> <<>>]

ExecuteParseArgs(argsStr) ==
    LET p == JSONParse(argsStr) IN
    IF p.ok THEN [call |-> TRUE, args |-> p.val, out |-> <<>>]
    ELSE [call |-> FALSE, args |-> Obj(<<>>), out |-> ErrorArgumentsText]

RECURSIVE TextsOf(_)
\* result.content.filter(c => c.type === "text" && c.text).map(c => c.text)
TextsOf(content) ==
    IF content = <<>> THEN <<>>
    ELSE IF content[1].type = "text" /\ content[1].text # <<>>
         THEN <<content[1].text>> \o TextsOf(Tail(content))
         ELSE TextsOf(Tail(content))

\* the string execute returns for a callTool result
ExecuteResultText(result) ==
    LET texts == TextsOf(result.content) IN
    IF result.hasContent /\ texts # <<>> THEN Join(texts, <<NL>>)
    ELSE IF result.isError THEN UnknownErrorText
    ELSE NoContentText

\* the outer catch of execute: the failure of callMcpTool (the connection or
\* callTool throwing) becomes a string for the model; threw = TRUE would be
\* the failure leaving execute
ExecuteCatchRethrows(message) == [threw |-> TRUE, out |-> <<>>]

ExecuteCatch(message) == [threw |-> FALSE, out |-> ErrorExecutingText(message)]

\* ------------------------------------------------------------------------
\* POST: scan of result.steps for a transaction payload and a tool error
\* ------------------------------------------------------------------------
\* The accumulator is [threw, td, te]: td is transactionData (Null for the
\* JavaScript null), te is toolError (the empty text for null), threw is an
\* exception on its way out of the scan.
RECURSIVE ScanItems(_, _)
RECURSIVE ScanItem(_, _, _, _)

\* the inner try { innerParsed = JSON.parse(item.text); ... } catch {}
ScanInner(ip, acc) ==
    IF ip.ok /\ ip.val.k # "null" /\ Truthy(Get(ip.val, "transaction"))
    THEN [acc EXCEPT !.td = ip.val]
    ELSE acc

\* the body of for (const item of parsed), text being item.text: an
\* exception ends the loop and keeps the assignments made before it
ScanItem(item, text, rest, acc) ==
    IF item.k = "null" THEN [acc EXCEPT !.threw = TRUE]
    ELSE IF Get(item, "type") = Str(<<P("text")>>) /\ Truthy(text) THEN
        IF text.k # "str" THEN [acc EXCEPT !.threw = TRUE]
        ELSE IF StartsWithErrorColon(text.s)
        THEN ScanItems(rest, [acc EXCEPT !.te = text.s])
        ELSE ScanItems(rest, ScanInner(JSONParse(text.s), acc))
    ELSE ScanItems(rest, acc)

\* for (const item of parsed)
ScanItems(items, acc) ==
    IF items = <<>> THEN acc
    ELSE ScanItem(items[1].val, Get(items[1].val, "text"), Tail(items), acc)

\* the try block with a payload that is kept once found
ScanParsedKeepsFirst(p, acc) ==
    IF ~p.ok THEN [acc EXCEPT !.threw = TRUE]
    ELSE IF p.val.k = "null" THEN [acc EXCEPT !.threw = TRUE]
    ELSE IF Truthy(Get(p.val, "transaction"))
    THEN IF acc.td = Null THEN [acc EXCEPT !.td = p.val] ELSE acc
    ELSE IF p.val.k = "arr" THEN ScanItems(p.val.e, acc)
    ELSE acc

\* the try block after const parsed = JSON.parse(resultStr), p being the
\* outcome of JSON.parse
ScanParsed(p, acc) ==
    IF ~p.ok THEN [acc EXCEPT !.threw = TRUE]
    ELSE IF p.val.k = "null" THEN [acc EXCEPT !.threw = TRUE]
    ELSE IF Truthy(Get(p.val, "transaction")) THEN [acc EXCEPT !.td = p.val]
    ELSE IF p.val.k = "arr" THEN ScanItems(p.val.e, acc)
    ELSE acc

\* the body of the try block
ScanTry(resultStr, acc) == ScanParsed(JSONParse(resultStr), acc)

\* the catch block
ScanCatch(resultStr, acc) ==
    IF IncludesError(resultStr)
    THEN [acc EXCEPT !.threw = FALSE, !.te = resultStr]
    ELSE [acc EXCEPT !.threw = FALSE]

\* try { ... } catch { ... } without the catch
ScanTryCatchUncaught(resultStr, acc) == ScanTry(resultStr, acc)

\* b is the accumulator the try block ended with
ScanCaught(resultStr, b) == IF b.threw THEN ScanCatch(resultStr, b) ELSE b

ScanTryCatch(resultStr, acc) == ScanCaught(resultStr, ScanTry(resultStr, acc))

\* one content item of type "tool-result" with the given output string
ScanOutput(resultStr, acc) ==
    IF acc.threw \/ resultStr = <<>> THEN acc
    ELSE IF StartsWithErrorColon(resultStr)
            \/ StartsWithErrorExecuting(resultStr)
    THEN [acc EXCEPT !.te = resultStr]
    ELSE ScanTryCatch(resultStr, acc)

RECURSIVE ScanOutputs(_, _)
ScanOutputs(outputs, acc) ==
    IF outputs = <<>> THEN acc
    ELSE ScanOutputs(Tail(outputs), ScanOutput(outputs[1], acc))

\* A step of result.steps is [calls, outputs]: the number of tool calls of
\* the round and the outputs of its tool-result content items.
RECURSIVE ScanSteps(_, _)
ScanSteps(stepSeq, acc) ==
    IF stepSeq = <<>> THEN acc
    ELSE ScanSteps(Tail(stepSeq), ScanOutputs(stepSeq[1].outputs, acc))

ScanInit == [threw |-> FALSE, td |-> Null, te |-> <<>>]

\* ------------------------------------------------------------------------
\* POST: synthesis of the content, scan of the text, classification
\* ------------------------------------------------------------------------
PreparedText(td) ==
    <<P("I've prepared the transaction to create your token. Please sign it to complete the process."),
      NL, NL, FenceJson, NL>> \o JSONStringifyPretty(td) \o <<NL, Fence>>
IssuePrefix == P("There was an issue: ")
IssueText(te) == <<IssuePrefix>> \o te
ToolResultPrefix == P("Tool result: ")
NoDataText ==
    <<P("I processed your request but the tool didn't return any data. Please try again.")>>

\* result.steps?.some(s => s.toolCalls && s.toolCalls.length > 0)
HadToolCalls(stepSeq) == \E i \in 1..Len(stepSeq) : stepSeq[i].calls > 0

RECURSIVE LastOutput(_, _)
LastOutput(outputs, cur) ==
    IF outputs = <<>> THEN cur
    ELSE LastOutput(Tail(outputs), IF outputs[1] # <<>> THEN outputs[1] ELSE cur)

RECURSIVE LastResultText(_, _)
\* the loop over step.toolResults: the last non-empty tr.result.
LastResultText(stepSeq, cur) ==
    IF stepSeq = <<>> THEN cur
    ELSE LastResultText(Tail(stepSeq), LastOutput(stepSeq[1].outputs, cur))

\* hasResult: whether the tool results of the steps carry a result field
\* (the handler reads both step.content[].output and step.toolResults[].result)
ToolResultText(stepSeq, hasResult) ==
    IF hasResult THEN LastResultText(stepSeq, <<>>) ELSE <<>>

\* if (toolResultText) content = "Tool result: ..." else content = "I processed ..."
ToolResultContent(toolResultText) ==
    IF toolResultText # <<>>
    THEN <<ToolResultPrefix>> \o toolResultText
    ELSE NoDataText

\* the if / else-if chain that synthesizes content; with the tool error
\* tested before the payload
SynthesizeContentErrorFirst(text, scan, stepSeq, hasResult) ==
    IF text = <<>> /\ scan.te # <<>> THEN IssueText(scan.te)
    ELSE IF text = <<>> /\ scan.td # Null THEN PreparedText(scan.td)
    ELSE IF text = <<>> THEN
        IF HadToolCalls(stepSeq)
        THEN ToolResultContent(ToolResultText(stepSeq, hasResult))
        ELSE <<>>
    ELSE text

\* ... with the tool calls tested before the tool error
SynthesizeContentResultFirst(text, scan, stepSeq, hasResult) ==
    IF text = <<>> /\ scan.td # Null THEN PreparedText(scan.td)
    ELSE IF text = <<>> /\ HadToolCalls(stepSeq)
    THEN ToolResultContent(ToolResultText(stepSeq, hasResult))
    ELSE IF text = <<>> /\ scan.te # <<>> THEN IssueText(scan.te)
    ELSE text

\* ... with the prepared-transaction message whenever a payload was found
SynthesizeContentOverText(text, scan, stepSeq, hasResult) ==
    IF scan.td # Null THEN PreparedText(scan.td)
    ELSE IF text = <<>> /\ scan.te # <<>> THEN IssueText(scan.te)
    ELSE IF text = <<>> THEN
        IF HadToolCalls(stepSeq)
        THEN ToolResultContent(ToolResultText(stepSeq, hasResult))
        ELSE <<>>
    ELSE text

SynthesizeContent(text, scan, stepSeq, hasResult) ==
    IF text = <<>> /\ scan.td # Null THEN PreparedText(scan.td)
    ELSE IF text = <<>> /\ scan.te # <<>> THEN IssueText(scan.te)
    ELSE IF text = <<>> THEN
        IF HadToolCalls(stepSeq)
        THEN ToolResultContent(ToolResultText(stepSeq, hasResult))
        ELSE <<>>
    ELSE text

\* index of the first lexeme at or after i that is not white space
RECURSIVE NextNonWs(_, _)
NextNonWs(c, i) ==
    IF i <= Len(c) /\ c[i].t \in WsLexemes THEN NextNonWs(c, i + 1) ELSE i

Min(set) == CHOOSE x \in set : \A y \in set : x <= y

\* the literal "transaction" in double quotes
IsTransactionLiteral(tok) == tok = Q("transaction")

\* ends k of /({[\s\S]*?"transaction"[\s\S]*?})\s*<fence>/ for a group
\* that starts at a
FencedEnds(c, a) ==
    {k \in (a + 1)..Len(c) :
        /\ c[k].t = "}"
        /\ \E j \in (a + 1)..(k - 1) : IsTransactionLiteral(c[j])
        /\ LET n == NextNonWs(c, k + 1) IN
               n <= Len(c) /\ c[n].t \in {Fence.t, FenceJson.t}}

\* content.match(/<fence>json\s*({[\s\S]*?"transaction"[\s\S]*?})\s*<fence>/)
FencedMatch(c) ==
    LET starts == {i \in 1..Len(c) :
                      /\ c[i] = FenceJson
                      /\ LET a == NextNonWs(c, i + 1) IN
                             a <= Len(c) /\ c[a].t = "{" /\ FencedEnds(c, a) # {}}
    IN
    IF starts = {} THEN [found |-> FALSE, group |-> <<>>]
    ELSE LET a == NextNonWs(c, Min(starts) + 1) IN
         [found |-> TRUE, group |-> SubSeq(c, a, Min(FencedEnds(c, a)))]

\* content.match(/({[\s\S]*?"transaction"[\s\S]*?})/)
SimpleMatch(c) ==
    LET lits(i) == {j \in (i + 1)..Len(c) : IsTransactionLiteral(c[j])}
        ends(j) == {k \in (j + 1)..Len(c) : c[k].t = "}"}
        starts == {i \in 1..Len(c) :
                      /\ c[i].t = "{"
                      /\ lits(i) # {}
                      /\ ends(Min(lits(i))) # {}}
    IN
    IF starts = {} THEN [found |-> FALSE, group |-> <<>>]
    ELSE LET a == Min(starts) IN
         [found |-> TRUE, group |-> SubSeq(c, a, Min(ends(Min(lits(a)))))]

\* try { transactionData = JSON.parse(match[1]) } catch {}
ParsedOrNull(p) == IF p.ok THEN p.val ELSE Null

\* the simple match is tried only when the fenced one did not match
ScanTextMatches(jsonMatch, simpleMatch) ==
    IF jsonMatch.found THEN ParsedOrNull(JSONParse(jsonMatch.group))
    ELSE IF simpleMatch.found THEN ParsedOrNull(JSONParse(simpleMatch.group))
    ELSE Null

\* the scan of the text without the test of transactionData: a payload of
\* the text replaces the one of the steps
ScanTextAlways(td, content) ==
    IF content # <<>>
          /\ ScanTextMatches(FencedMatch(content), SimpleMatch(content)) # Null
    THEN ScanTextMatches(FencedMatch(content), SimpleMatch(content))
    ELSE td

\* if (!transactionData && content) { ... }
ScanText(td, content) ==
    IF td = Null /\ content # <<>>
    THEN ScanTextMatches(FencedMatch(content), SimpleMatch(content))
    ELSE td

\* the heuristic with the test inverted
InferredToolNameInverted(td) ==
    IF td # Null /\ Truthy(Get(td, "baseMint")) THEN "swap"
    ELSE "create_genesis_account"

InferredToolName(td) ==
    IF td # Null /\ ~Truthy(Get(td, "baseMint")) THEN "swap"
    ELSE "create_genesis_account"

\* A response is the status with the body; keys are the keys the body has
\* (NextResponse.json leaves out the undefined ones); text is
\* result.content[0].text.
NoResponse ==
    [status |-> 0, keys |-> {}, type |-> "undefined", content |-> <<>>,
     tool |-> "undefined", text |-> <<>>, error |-> "undefined",
     details |-> <<>>]

\* a response whose type is only set for a payload
OkResponseTypeOnlyForPayload(td, content) ==
    IF td # Null THEN
        [NoResponse EXCEPT !.status = 200,
                           !.keys = {"type", "content", "tool", "result"},
                           !.type = "tool_result",
                           !.content = content,
                           !.tool = InferredToolName(td),
                           !.text = JSONStringify(td)]
    ELSE
        [NoResponse EXCEPT !.status = 200,
                           !.keys = {"content"},
                           !.content = content]

\* NextResponse.json({type, content, tool, result})
OkResponse(td, content) ==
    IF td # Null THEN
        [NoResponse EXCEPT !.status = 200,
                           !.keys = {"type", "content", "tool", "result"},
                           !.type = "tool_result",
                           !.content = content,
                           !.tool = InferredToolName(td),
                           !.text = JSONStringify(td)]
    ELSE
        [NoResponse EXCEPT !.status = 200,
                           !.keys = {"type", "content"},
                           !.type = "text",
                           !.content = content]

\* NextResponse.json({error, details}, {status: 500})
ErrorResponse(message) ==
    [NoResponse EXCEPT !.status = 500,
                       !.keys = {"error", "details"},
                       !.error = "Internal Server Error",
                       !.details = message]

TypeErrorMessage == <<P("Cannot read properties of null")>>

\* return NextResponse.json(...), with the final transactionData
PostRespond(td, te, content) ==
    [threw |-> FALSE, td |-> td, te |-> te, resp |-> OkResponse(td, content)]

\* the handler after the scan of the steps: threw is an exception raised by
\* the scan, which the handler's catch turns into the 500 response
PostAfterScan(scan, content) ==
    IF scan.threw
    THEN [threw |-> TRUE, td |-> Null, te |-> <<>>,
          resp |-> ErrorResponse(TypeErrorMessage)]
    ELSE PostRespond(ScanText(scan.td, content), scan.te, content)

\* scan is the outcome of the scan of the steps
PostSynthesize(scan, stepSeq, text, hasResult) ==
    PostAfterScan(scan, SynthesizeContent(text, scan, stepSeq, hasResult))

\* the handler from the return of generateText to the response
PostExtract(stepSeq, text, hasResult) ==
    PostSynthesize(ScanSteps(stepSeq, ScanInit), stepSeq, text, hasResult)

\* ------------------------------------------------------------------------
\* POST: request validation and prompt assembly
\* ------------------------------------------------------------------------
\* MessageSchema: {role: "user" | "assistant", content: string}
MessageSchemaOk(m) ==
    /\ m.k = "obj"
    /\ Get(m, "role") \in {Str(<<P("user")>>), Str(<<P("assistant")>>)}
    /\ Get(m, "content").k = "str"

\* a schema that lets any role through
RequestSchemaOkAnyRole(body) ==
    /\ body.k = "obj"
    /\ Get(body, "message").k = "str"
    /\ Get(body, "history").k \in {"undefined", "arr"}
    /\ Get(body, "walletAddress").k \in {"undefined", "str"}

\* RequestSchema.parse(body) does not throw
RequestSchemaOk(body) ==
    /\ body.k = "obj"
    /\ Get(body, "message").k = "str"
    /\ LET history == Get(body, "history") IN
           \/ history.k = "undefined"
           \/ /\ history.k = "arr"
              /\ \A i \in 1..Len(history.e) : MessageSchemaOk(history.e[i].val)
    /\ Get(body, "walletAddress").k \in {"undefined", "str"}

NotConnectedNotice ==
    P("\n\n## Wallet Status\nThe user has NOT connected a wallet yet. If they want to create a token, remind them to connect their wallet first using the button in the top-right corner.")
ConnectedHead ==
    P("\n\n## User's Connected Wallet\nThe user has connected their wallet: ")
ConnectedTail ==
    P("\nUse this address for baseMint, authority, and payer when creating tokens.")

\* walletContext with a test for presence instead of truthiness
WalletContextIfDefined(walletAddress) ==
    IF walletAddress.k # "undefined"
    THEN <<ConnectedHead>> \o walletAddress.s \o <<ConnectedTail>>
    ELSE <<NotConnectedNotice>>

\* const walletContext = walletAddress ? ... : ...
WalletContext(walletAddress) ==
    IF Truthy(walletAddress)
    THEN <<ConnectedHead>> \o walletAddress.s \o <<ConnectedTail>>
    ELSE <<NotConnectedNotice>>

\* the tools the external server lists
ToolCatalog ==
    <<[name |-> P("create_genesis_account"),
       description |-> P("Create a Genesis account"),
       inputSchema |-> Obj(<<Entry(<<P("type")>>, Str(<<P("object")>>))>>)],
      [name |-> P("swap"),
       description |-> P("Swap on a bonding curve"),
       inputSchema |-> Obj(<<Entry(<<P("type")>>, Str(<<P("object")>>))>>)]>>

RECURSIVE DescribeTools(_)
DescribeTools(tools) ==
    IF tools = <<>> THEN <<>>
    ELSE <<<<P("Tool: "), tools[1].name, P("\nDescription: "),
             tools[1].description, P("\nSchema: ")>>
           \o JSONStringify(tools[1].inputSchema) \o <<NL>>>>
         \o DescribeTools(Tail(tools))

\* getToolsDescription, after listTools returned the tools
GetToolsDescription(tools) == Join(DescribeTools(tools), <<NL, NL>>)

PromptHead ==
    P("You are a friendly AI assistant for the Metaplex Genesis Protocol on Solana Devnet. ... ## Available Tools\n")
PromptBody ==
    P("\n## SIMPLIFIED TOKEN CREATION FLOW ... <user_wallet_address> ... ## Help Command ...\n")

\* the system option of generateText
SystemPrompt(toolsDesc, walletContext) ==
    <<PromptHead>> \o toolsDesc \o <<PromptBody>> \o walletContext \o <<NL>>

\* needle occurs in hay (String.prototype.includes on lexeme sequences)
Contains(hay, needle) ==
    \E i \in 0..(Len(hay) - Len(needle)) :
        SubSeq(hay, i + 1, i + Len(needle)) = needle

\* ------------------------------------------------------------------------
\* Inputs
\* ------------------------------------------------------------------------
Wallet1 == P("7xKXtg2CW87d97TXJSDpbD5jBkheTqA83TZRuJosgAsU")
WalletAddresses == {Wallet1}

Member(name, val) == <<Q(name), Colon>> \o val
HistoryTurn(role) ==
    <<LBrace>> \o Member("role", <<Q(role)>>) \o <<Comma>>
               \o Member("content", <<Q("hi")>>) \o <<RBrace>>
MessageMember == Member("message", <<Q("Create a token called Foo with symbol FOO")>>)

\* request bodies that pass the schema
BodyPlain == <<LBrace>> \o MessageMember \o <<RBrace>>
BodyEmptyWallet ==
    <<LBrace>> \o MessageMember \o <<Comma>>
               \o Member("history", <<LBrack>> \o HistoryTurn("user") \o <<RBrack>>)
               \o <<Comma>> \o Member("walletAddress", <<S(<<>>)>>) \o <<RBrace>>
BodyWallet ==
    <<LBrace>> \o MessageMember \o <<Comma>>
               \o Member("history", <<LBrack>> \o HistoryTurn("user") \o <<Comma>>
                                     \o HistoryTurn("assistant") \o <<RBrack>>)
               \o <<Comma>> \o Member("walletAddress", <<S(<<Wallet1>>)>>)
               \o <<RBrace>>
ValidBodies == {BodyPlain, BodyEmptyWallet, BodyWallet}

\* request bodies that do not
BodyNotJson == <<LBrace>> \o MessageMember
BodyNull == <<P("null")>>
BodyNoMessage == <<LBrace>> \o Member("walletAddress", <<S(<<Wallet1>>)>>) \o <<RBrace>>
BodyNumberMessage == <<LBrace>> \o Member("message", <<P("5")>>) \o <<RBrace>>
BodyBadRole ==
    <<LBrace>> \o MessageMember \o <<Comma>>
               \o Member("history", <<LBrack>> \o HistoryTurn("system") \o <<RBrack>>)
               \o <<RBrace>>
BodyNumberWallet ==
    <<LBrace>> \o MessageMember \o <<Comma>>
               \o Member("walletAddress", <<P("5")>>) \o <<RBrace>>
InvalidBodies ==
    {BodyNotJson, BodyNull, BodyNoMessage, BodyNumberMessage, BodyBadRole,
     BodyNumberWallet}
Bodies == ValidBodies \cup InvalidBodies

\* argument strings the model passes to execute_mcp_tool
PlainArgs == <<LBrace>> \o Member("name", <<Q("Foo")>>) \o <<RBrace>>
BrokenArgs == <<LBrace>> \o Member("name", <<Q("Foo")>>)
ArgStrs == {PlainArgs, BrokenArgs}

\* texts of tool results
TxCreate ==
    <<LBrace>> \o Member("transaction", <<Q("T1")>>) \o <<Comma>>
               \o Member("baseMint", <<Q("M1")>>) \o <<RBrace>>
TxSwap == <<LBrace>> \o Member("transaction", <<Q("T2")>>) \o <<RBrace>>
TxEmptyMint ==
    <<LBrace>> \o Member("transaction", <<Q("T3")>>) \o <<Comma>>
               \o Member("baseMint", <<S(<<>>)>>) \o <<RBrace>>
TxFalsy == <<LBrace>> \o Member("transaction", <<S(<<>>)>>) \o <<RBrace>>
LegacyItem(text) ==
    <<LBrace>> \o Member("type", <<Q("text")>>) \o <<Comma>>
               \o Member("text", text) \o <<RBrace>>

\* results of the bridge's callTool
ResultCreate == ToolResult(FALSE, TRUE, <<TextItem(TxCreate)>>)
ResultSwap == ToolResult(FALSE, TRUE, <<ImageItem, TextItem(TxSwap)>>)
ResultEmptyMint == ToolResult(FALSE, TRUE, <<TextItem(TxEmptyMint)>>)
ResultTwoTexts ==
    ToolResult(FALSE, TRUE, <<TextItem(<<P("Created token Foo")>>), TextItem(TxSwap)>>)
ResultFalsy == ToolResult(FALSE, TRUE, <<TextItem(TxFalsy)>>)
ResultError ==
    ToolResult(TRUE, TRUE, <<TextItem(<<P("Error:"), P(" insufficient funds")>>)>>)
ResultErrorNoText == ToolResult(TRUE, TRUE, <<>>)
ResultNoContent == ToolResult(FALSE, FALSE, <<>>)
ResultNull == ToolResult(FALSE, TRUE, <<TextItem(<<P("null")>>)>>)
ResultMalformed ==
    ToolResult(FALSE, TRUE, <<TextItem(<<LBrace, Q("transaction"), Colon>>)>>)
ResultUnexpected ==
    ToolResult(TRUE, TRUE, <<TextItem(<<P("Unexpected Error"), P(" in program")>>)>>)
ResultLegacy ==
    ToolResult(FALSE, TRUE,
        <<TextItem(<<LBrack>> \o LegacyItem(<<S(TxCreate)>>) \o <<Comma>>
                   \o LegacyItem(<<P("5")>>) \o <<RBrack>>)>>)
ResultLegacyNull ==
    ToolResult(FALSE, TRUE,
        <<TextItem(<<LBrack, P("null"), Comma>> \o LegacyItem(<<S(TxCreate)>>)
                   \o <<RBrack>>)>>)
ResultPlain == ToolResult(FALSE, TRUE, <<TextItem(<<P("Genesis account found")>>)>>)
NoResult == ToolResult(FALSE, FALSE, <<>>)

ToolResults ==
    {ResultCreate, ResultSwap, ResultEmptyMint, ResultTwoTexts, ResultFalsy,
     ResultError, ResultErrorNoText, ResultNoContent, ResultNull,
     ResultMalformed, ResultUnexpected, ResultLegacy, ResultLegacyNull,
     ResultPlain}

\* final texts of the model
TextPlain == <<P("Your token is ready.")>>
TextFenced ==
    <<P("Sign this:"), NL, FenceJson, NL>> \o
    <<LBrace>> \o Member("transaction", <<Q("T9")>>) \o <<Comma>>
               \o Member("message", <<Q("Sign this transaction to create your token!")>>)
               \o <<RBrace>> \o <<NL, Fence>>
TextBare == <<P("Here: ")>> \o TxSwap \o <<P(" done")>>
TextNested ==
    <<FenceJson, NL, LBrace>> \o Member("data", TxSwap) \o <<RBrace, NL, Fence>>
TextValueOnly == <<P("See ")>> \o <<LBrace>> \o Member("kind", <<Q("transaction")>>) \o <<RBrace>>
TextBrokenFence ==
    <<FenceJson, NL, LBrace, Q("transaction"), Colon, RBrace, NL, Fence, NL>> \o TxSwap
Texts ==
    {<<>>, TextPlain, TextFenced, TextBare, TextNested, TextValueOnly,
     TextBrokenFence}
\* texts of a round that also calls a tool
CapTexts == {<<>>, TextPlain}

\* messages of the errors the collaborators throw
SyntaxErrorMessage == <<P("Unexpected end of JSON input")>>
ZodErrorMessage == <<P("ZodError: invalid input")>>
ConnectErrorMessage == <<P("Connection closed")>>
ListToolsErrorMessage == <<P("MCP error: listTools failed")>>
CallToolErrorMessage == <<P("MCP error: tool failed")>>
ModelErrorMessage == <<P("OpenAI API key is missing")>>

\* ------------------------------------------------------------------------
\* State
\* ------------------------------------------------------------------------
\* mcpClient:   the module variable of lib/mcp.ts; 0 is null, n > 0 is the
\*              client of the n-th connection
\* connections: number of connections established to the external process
\* req:         the state of each request of POST /api/chat
\* env:         the inputs of the run: which requests arrive, in how many
\*              rounds the inputs vary, in how many rounds the model asks
\*              for a tool, and the bodies, final texts, argument strings
\*              and tool results the run draws from
VARIABLES mcpClient, connections, req, env
vars == <<mcpClient, connections, req, env>>

Requests == 1..NumConc

\* a request before it arrives.  pc is the await the request is suspended
\* at; client is the local variable of callMcpTool/listMcpTools; steps and
\* text are result.steps and result.text; td and te are transactionData and
\* toolError at the return; log records what each execute did; failedAt
\* records which call raised the exception the handler caught.
IdleRequest ==
    [pc |-> "idle", body |-> <<>>, prompt |-> <<>>, client |-> 0,
     args |-> <<>>, steps |-> <<>>, log |-> <<>>, text |-> <<>>,
     td |-> Null, te |-> <<>>, resp |-> NoResponse, failedAt |-> "none"]

LogEntry(argsStr, bridge, result, out) ==
    [args |-> argsStr, bridge |-> bridge, result |-> result, out |-> out]

InitWith(e) ==
    /\ mcpClient = 0
    /\ connections = 0
    /\ req = [r \in Requests |-> IdleRequest]
    /\ env = e

\* one request at a time, all inputs
Init ==
    InitWith([reqs |-> {1}, varied |-> MaxVaried, rounds |-> MaxSteps,
              bodies |-> Bodies, texts |-> Texts, args |-> ArgStrs,
              results |-> ToolResults])

\* concurrent requests, that ask for a tool in at most one round
InitConc ==
    InitWith([reqs |-> Requests, varied |-> 1, rounds |-> 1,
              bodies |-> {BodyPlain}, texts |-> {<<>>}, args |-> {PlainArgs},
              results |-> {ResultPlain}])

\* one request whose model may ask for a tool in every round
InitLive ==
    InitWith([reqs |-> {1}, varied |-> 1, rounds |-> MaxSteps,
              bodies |-> {BodyPlain, BodyNotJson}, texts |-> CapTexts,
              args |-> ArgStrs, results |-> {ResultPlain, ResultError}])

\* ------------------------------------------------------------------------
\* Steps of the handler
\* ------------------------------------------------------------------------
\* the catch of POST
Fail(rec, where, message) ==
    [rec EXCEPT !.pc = "done", !.failedAt = where,
                !.resp = ErrorResponse(message)]

\* getMcpClient up to its first await: the memoized client, or the start
\* of a connection
GetMcpClient(rec, purpose) ==
    IF mcpClient # 0
    THEN [rec EXCEPT !.client = mcpClient,
                     !.pc = IF purpose = "catalog" THEN "listing" ELSE "calling"]
    ELSE [rec EXCEPT !.pc = IF purpose = "catalog" THEN "connecting_catalog"
                                                    ELSE "connecting_tool"]

\* generateText without the check of the step count against maxSteps
EndRoundNoCap(rec, entry, capText, hasResult) ==
    [rec EXCEPT !.pc = "model",
                !.log = Append(rec.log, entry), !.args = <<>>,
                !.steps = Append(rec.steps,
                                 [calls |-> 1, outputs |-> <<entry.out>>])]

\* generateText returned: the rest of the handler, x being its outcome
ReturnWith(rec, stepSeq, text, x) ==
    [rec EXCEPT !.pc = "done", !.steps = stepSeq, !.text = text,
                !.td = x.td, !.te = x.te, !.resp = x.resp,
                !.failedAt = IF x.threw THEN "extract" ELSE "none"]

Return(rec, stepSeq, text, hasResult) ==
    ReturnWith(rec, stepSeq, text, PostExtract(stepSeq, text, hasResult))

\* execute returned out: the round is over; generateText goes on to the next
\* round, or returns when maxSteps rounds are done
EndRound(rec, entry, capText, hasResult) ==
    LET stepSeq == Append(rec.steps, [calls |-> 1, outputs |-> <<entry.out>>])
        rec2 == [rec EXCEPT !.log = Append(rec.log, entry), !.args = <<>>]
    IN
    IF Len(stepSeq) >= MaxSteps
    THEN Return(rec2, stepSeq, capText, hasResult)
    ELSE [rec2 EXCEPT !.pc = "model", !.steps = stepSeq]

\* execute: callMcpTool failed with message
ExecuteFailed(rec, bridge, message, capText, hasResult) ==
    LET c == ExecuteCatch(message) IN
    IF c.threw
    THEN Fail([rec EXCEPT !.log = Append(rec.log,
                              LogEntry(rec.args, bridge, NoResult, <<>>))],
              "tool", message)
    ELSE EndRound(rec, LogEntry(rec.args, bridge, NoResult, c.out),
                  capText, hasResult)

\* POST: req.json(), RequestSchema.parse, and getToolsDescription up to the
\* first await of getMcpClient
Post(r) ==
    /\ r \in env.reqs
    /\ req[r].pc = "idle"
    /\ \E raw \in env.bodies :
        LET parsed == JSONParse(raw)
            rec == [req[r] EXCEPT !.body = raw]
        IN
        req' = [req EXCEPT ![r] =
                  IF ~parsed.ok THEN Fail(rec, "validation", SyntaxErrorMessage)
                  ELSE IF ~RequestSchemaOk(parsed.val)
                  THEN Fail(rec, "validation", ZodErrorMessage)
                  ELSE GetMcpClient(rec, "catalog")]
    /\ UNCHANGED <<mcpClient, connections, env>>

\* await client.connect(transport) resolves: mcpClient = client; return client
ConnectOk(r) ==
    /\ req[r].pc \in {"connecting_catalog", "connecting_tool"}
    /\ connections' = connections + 1
    /\ mcpClient' = connections + 1
    /\ req' = [req EXCEPT ![r] =
                  [@ EXCEPT !.client = connections + 1,
                            !.pc = IF @ = "connecting_catalog" THEN "listing"
                                                               ELSE "calling"]]
    /\ UNCHANGED env

\* await client.connect(transport) rejects (or require.resolve throws):
\* mcpClient stays null and the caller gets the error
ConnectFail(r) ==
    /\ req[r].pc \in {"connecting_catalog", "connecting_tool"}
    /\ \E capText \in CapTexts, hasResult \in BOOLEAN :
        req' = [req EXCEPT ![r] =
                  IF @.pc = "connecting_catalog"
                  THEN Fail(@, "catalog", ConnectErrorMessage)
                  ELSE ExecuteFailed(@, "connect-failed", ConnectErrorMessage,
                                     capText, hasResult)]
    /\ UNCHANGED <<mcpClient, connections, env>>

\* await client.listTools() resolves: the prompt is assembled and
\* generateText starts its first round
ListToolsOk(r) ==
    /\ req[r].pc = "listing"
    /\ req' = [req EXCEPT ![r] =
                  [@ EXCEPT !.pc = "model",
                            !.prompt = SystemPrompt(
                                GetToolsDescription(ToolCatalog),
                                WalletContext(Get(JSONParse(req[r].body).val,
                                                  "walletAddress")))]]
    /\ UNCHANGED <<mcpClient, connections, env>>

\* await client.listTools() rejects
ListToolsFail(r) ==
    /\ req[r].pc = "listing"
    /\ req' = [req EXCEPT ![r] = Fail(@, "catalog", ListToolsErrorMessage)]
    /\ UNCHANGED <<mcpClient, connections, env>>

\* the model invocation of a round fails: generateText rejects
ModelFail(r) ==
    /\ req[r].pc = "model"
    /\ req' = [req EXCEPT ![r] = Fail(@, "model", ModelErrorMessage)]
    /\ UNCHANGED <<mcpClient, connections, env>>

\* the model answers without a tool call: generateText returns
ModelFinal(r) ==
    /\ req[r].pc = "model"
    /\ \E text \in (IF Len(req[r].steps) <= env.varied THEN env.texts
                                                          ELSE CapTexts),
          hasResult \in BOOLEAN :
        req' = [req EXCEPT ![r] =
                  Return(@, Append(@.steps, [calls |-> 0, outputs |-> <<>>]),
                         text, hasResult)]
    /\ UNCHANGED <<mcpClient, connections, env>>

\* the model calls execute_mcp_tool: execute up to its first await
ModelToolCall(r) ==
    /\ req[r].pc = "model"
    /\ Len(req[r].steps) < env.rounds
    /\ \E argsStr \in (IF Len(req[r].steps) < env.varied THEN env.args
                                                         ELSE {PlainArgs}),
          capText \in CapTexts, hasResult \in BOOLEAN :
        LET pa == ExecuteParseArgs(argsStr) IN
        req' = [req EXCEPT ![r] =
                  IF pa.call
                  THEN GetMcpClient([@ EXCEPT !.args = argsStr], "tool")
                  ELSE EndRound(@, LogEntry(argsStr, "none", NoResult, pa.out),
                                capText, hasResult)]
    /\ UNCHANGED <<mcpClient, connections, env>>

\* await client.callTool(...) resolves
CallToolOk(r) ==
    /\ req[r].pc = "calling"
    /\ \E result \in (IF Len(req[r].steps) < env.varied THEN env.results
                                                        ELSE {ResultPlain}),
          capText \in CapTexts, hasResult \in BOOLEAN :
        req' = [req EXCEPT ![r] =
                  EndRound(@, LogEntry(@.args, "returned", result,
                                       ExecuteResultText(result)),
                           capText, hasResult)]
    /\ UNCHANGED <<mcpClient, connections, env>>

\* await client.callTool(...) rejects
CallToolThrow(r) ==
    /\ req[r].pc = "calling"
    /\ Len(req[r].steps) < env.varied
    /\ \E capText \in CapTexts, hasResult \in BOOLEAN :
        req' = [req EXCEPT ![r] =
                  ExecuteFailed(@, "threw", CallToolErrorMessage,
                                capText, hasResult)]
    /\ UNCHANGED <<mcpClient, connections, env>>

Next ==
    \E r \in Requests :
        \/ Post(r)
        \/ ConnectOk(r)
        \/ ConnectFail(r)
        \/ ListToolsOk(r)
        \/ ListToolsFail(r)
        \/ ModelFail(r)
        \/ ModelFinal(r)
        \/ ModelToolCall(r)
        \/ CallToolOk(r)
        \/ CallToolThrow(r)

Spec == Init /\ [][Next]_vars
SpecConc == InitConc /\ [][Next]_vars

\* the steps of a request that arrived: a pending await settles (it resolves
\* or rejects) and the code after it runs to the next await
Settle(r) ==
    \/ ConnectOk(r)
    \/ ConnectFail(r)
    \/ ListToolsOk(r)
    \/ ListToolsFail(r)
    \/ ModelFail(r)
    \/ ModelFinal(r)
    \/ ModelToolCall(r)
    \/ CallToolOk(r)
    \/ CallToolThrow(r)

\* every promise the handler awaits settles, and the event loop then runs
\* the continuation
SpecLive ==
    InitLive /\ [][Next]_vars /\ \A r \in Requests : WF_vars(Settle(r))

\* ------------------------------------------------------------------------
\* Properties
\* ------------------------------------------------------------------------
Done(r) == req[r].pc = "done"
\* generateText returned and the handler answered from its result
Answered(r) == Done(r) /\ req[r].failedAt = "none"
ValidBody(r) == req[r].body \in ValidBodies
ReplyTypes == {"text", "tool_result"}

RECURSIVE AllOutputs(_)
\* the outputs of the tool results of a step history, in step order
AllOutputs(stepSeq) ==
    IF stepSeq = <<>> THEN <<>>
    ELSE stepSeq[1].outputs \o AllOutputs(Tail(stepSeq))

\* the text is the JSON serialisation of an object with a transaction key
IsTransactionJson(text) ==
    LET p == JSONParse(text) IN
    /\ p.ok
    /\ p.val.k = "obj"
    /\ Get(p.val, "transaction") # Undefined

\* ... whose transaction is a non-empty value
IsPayloadText(text) ==
    /\ IsTransactionJson(text)
    /\ Truthy(Get(JSONParse(text).val, "transaction"))

\* C1 as stated: every request with a valid body is answered with a body
\* whose type is "text" or "tool_result", never with a body without a type.
C1_TypedReplyForEveryValidBody ==
    \A r \in Requests :
        Done(r) /\ ValidBody(r) =>
            "type" \in req[r].resp.keys /\ req[r].resp.type \in ReplyTypes

\* C1 amended: a request with a valid body whose catalog fetch and model
\* invocations do not fail is answered 200 with a body whose type is exactly
\* one of "text" and "tool_result"; when the catalog fetch or a model
\* invocation fails it is answered 500 with {error, details}, without a type.
C1_TypedReplyUnlessOutsideFailure ==
    \A r \in Requests :
        Done(r) /\ ValidBody(r) =>
            IF req[r].failedAt \in {"catalog", "model"}
            THEN /\ req[r].resp.status = 500
                 /\ req[r].resp.keys = {"error", "details"}
            ELSE /\ req[r].resp.status = 200
                 /\ "type" \in req[r].resp.keys
                 /\ req[r].resp.type \in ReplyTypes
                 /\ req[r].resp.type = "tool_result" <=> "result" \in req[r].resp.keys

C1_Witness ==
    \E r \in Requests :
        /\ Done(r) /\ ValidBody(r)
        /\ req[r].resp.status = 200
        /\ req[r].resp.type = "text"
        /\ Len(req[r].log) > 0

\* C2 as stated: whenever a callTool result of the request has a text item
\* that is the JSON of an object with a (non-empty) transaction T, the
\* response has type "tool_result" and result.content[0].text parses to an
\* object whose transaction is T.
C2_ToolTransactionRoundTrip ==
    \A r \in Requests :
        Answered(r) =>
            \A i \in 1..Len(req[r].log) :
                \A j \in 1..Len(req[r].log[i].result.content) :
                    LET item == req[r].log[i].result.content[j] IN
                    (req[r].log[i].bridge = "returned"
                        /\ item.type = "text" /\ IsPayloadText(item.text)) =>
                        /\ req[r].resp.type = "tool_result"
                        /\ JSONParse(req[r].resp.text).ok
                        /\ Get(JSONParse(req[r].resp.text).val, "transaction")
                             = Get(JSONParse(item.text).val, "transaction")

\* C3: an execute_mcp_tool invocation whose arguments string is not valid
\* JSON never reaches the bridge, returns "Error: arguments must be a valid
\* JSON string." to the model as its tool result, and does not make the
\* request a 500.
C3_BrokenArgumentsAbsorbed ==
    \A r \in Requests :
        /\ req[r].pc \in {"connecting_tool", "calling"} => JSONParse(req[r].args).ok
        /\ \A i \in 1..Len(req[r].log) :
              ~JSONParse(req[r].log[i].args).ok =>
                  /\ req[r].log[i].bridge = "none"
                  /\ req[r].log[i].out = ErrorArgumentsText
                  /\ i <= Len(req[r].steps)
                  /\ req[r].steps[i].outputs = <<ErrorArgumentsText>>
        /\ Done(r) /\ req[r].log # <<>> /\ req[r].resp.status = 500 =>
              req[r].failedAt = "model"

C3_Witness ==
    \E r \in Requests :
        /\ Answered(r)
        /\ req[r].resp.status = 200
        /\ \E i \in 1..Len(req[r].log) : req[r].log[i].args = BrokenArgs

\* C4: a tool_result response names the tool "swap" when the extracted
\* payload has no truthy baseMint and "create_genesis_account" when it has
\* one; a text response names no tool.
C4_ToolNameFromBaseMint ==
    \A r \in Requests :
        Done(r) =>
            IF req[r].resp.type = "tool_result"
            THEN /\ req[r].td # Null
                 /\ req[r].resp.tool =
                        IF Truthy(Get(JSONParse(req[r].resp.text).val, "baseMint"))
                        THEN "create_genesis_account" ELSE "swap"
            ELSE /\ req[r].resp.tool = "undefined"
                 /\ "tool" \notin req[r].resp.keys

C4_Witness ==
    \E r \in Requests :
        /\ Done(r)
        /\ req[r].resp.type = "tool_result"
        /\ req[r].resp.tool = "swap"
        /\ Get(req[r].td, "baseMint") = Str(<<>>)

\* the walletAddress of the request body, undefined when the body has none
WalletOf(r) == Get(JSONParse(req[r].body).val, "walletAddress")
HasAddress(prompt) == \E a \in WalletAddresses : Contains(prompt, <<a>>)

\* C5 as stated: when the request carries a wallet address the prompt
\* contains that address and not the not-connected notice; when it carries
\* none the prompt contains the notice and no address.
C5_WalletSectionByPresence ==
    \A r \in Requests :
        req[r].prompt # <<>> =>
            IF WalletOf(r).k = "str"
            THEN /\ Contains(req[r].prompt, WalletOf(r).s)
                 /\ ~Contains(req[r].prompt, <<NotConnectedNotice>>)
            ELSE /\ Contains(req[r].prompt, <<NotConnectedNotice>>)
                 /\ ~HasAddress(req[r].prompt)

\* C5 amended: the prompt contains exactly one of the two wallet sections;
\* with a non-empty wallet address it contains the connected-wallet section
\* with that address and not the notice; with no wallet address or an empty
\* one it contains the notice, no connected-wallet section and no address.
C5_WalletSectionByTruthiness ==
    \A r \in Requests :
        req[r].prompt # <<>> =>
            /\ Contains(req[r].prompt, <<ConnectedHead>>)
                   # Contains(req[r].prompt, <<NotConnectedNotice>>)
            /\ IF WalletOf(r).k = "str" /\ WalletOf(r).s # <<>>
               THEN /\ Contains(req[r].prompt, <<ConnectedHead>> \o WalletOf(r).s)
                    /\ ~Contains(req[r].prompt, <<NotConnectedNotice>>)
               ELSE /\ Contains(req[r].prompt, <<NotConnectedNotice>>)
                    /\ ~Contains(req[r].prompt, <<ConnectedHead>>)
                    /\ ~HasAddress(req[r].prompt)

C5_Witness ==
    \E r \in Requests :
        /\ req[r].prompt # <<>>
        /\ WalletOf(r) = Str(<<Wallet1>>)
        /\ Contains(req[r].prompt, <<Wallet1>>)

\* the output is one the scan records as a tool error
IsErrorOutput(out) ==
    \/ StartsWithErrorColon(out)
    \/ StartsWithErrorExecuting(out)
    \/ ~JSONParse(out).ok /\ IncludesError(out)

\* C6: when the step history holds two tool results, an error string and
\* then a transaction payload, the response is a tool_result carrying that
\* payload, and its content is not the "There was an issue" text.
C6_PayloadAfterErrorWins ==
    \A r \in Requests :
        LET outs == AllOutputs(req[r].steps) IN
        (Answered(r) /\ Len(outs) = 2
            /\ IsErrorOutput(outs[1]) /\ IsPayloadText(outs[2])) =>
            /\ req[r].resp.type = "tool_result"
            /\ JSONParse(req[r].resp.text).ok
            /\ JSONParse(req[r].resp.text).val = JSONParse(outs[2]).val
            /\ req[r].te = outs[1]
            /\ req[r].resp.content # <<>> => req[r].resp.content[1] # IssuePrefix

C6_Witness ==
    \E r \in Requests :
        LET outs == AllOutputs(req[r].steps) IN
        /\ Answered(r) /\ Len(outs) = 2
        /\ IsErrorOutput(outs[1]) /\ IsPayloadText(outs[2])
        /\ req[r].text = <<>>
        /\ req[r].resp.type = "tool_result"

\* tool-result outputs and final texts that hold no payload: JSON null,
\* malformed JSON, an array whose first item is null, plain text
NoPayloadOutputs ==
    {ExecuteResultText(ResultNull),
     ExecuteResultText(ResultMalformed), ExecuteResultText(ResultLegacyNull),
     ExecuteResultText(ResultPlain), ErrorArgumentsText}
NoPayloadTexts == {<<>>, TextPlain, TextBrokenFence}

\* C7: the extraction never raises: no request is failed by the scan of the
\* step history or of the final text, a request whose generateText returned
\* is answered 200, and outputs and texts that are malformed JSON, JSON
\* null, non-object JSON or arrays with a null item yield no payload.
C7_ExtractionNeverRaises ==
    \A r \in Requests :
        /\ req[r].failedAt # "extract"
        /\ Answered(r) => req[r].resp.status = 200
        /\ (/\ Answered(r)
            /\ \A i \in 1..Len(AllOutputs(req[r].steps)) :
                   AllOutputs(req[r].steps)[i] \in NoPayloadOutputs
            /\ req[r].text \in NoPayloadTexts) =>
               /\ req[r].td = Null
               /\ req[r].resp.type = "text"

C7_Witness ==
    \E r \in Requests :
        /\ Answered(r)
        /\ req[r].resp.status = 200
        /\ req[r].resp.type = "text"
        /\ req[r].text = TextBrokenFence
        /\ AllOutputs(req[r].steps)
             = <<ExecuteResultText(ResultNull), ExecuteResultText(ResultLegacyNull)>>

\* C8 as stated: at most one connection is ever established, and the client
\* every caller got from getMcpClient is the memoized one.
C8_OneSharedConnection ==
    /\ connections <= 1
    /\ \A r \in Requests : req[r].client # 0 => req[r].client = mcpClient

\* C9: a request whose body is not JSON or fails the schema is answered 500
\* with {error, details}, never with a 200 text or tool_result reply, and
\* nothing of the handler after the validation runs for it.
C9_InvalidBodyIs500 ==
    \A r \in Requests :
        req[r].body \in InvalidBodies =>
            /\ Done(r)
            /\ req[r].resp.status = 500
            /\ req[r].resp.keys = {"error", "details"}
            /\ req[r].resp.error = "Internal Server Error"
            /\ req[r].resp.details \in {SyntaxErrorMessage, ZodErrorMessage}
            /\ req[r].failedAt = "validation"
            /\ req[r].prompt = <<>> /\ req[r].steps = <<>>

C9_Witness ==
    \E r \in Requests :
        /\ req[r].body = BodyBadRole
        /\ req[r].resp.status = 500

\* C10: a failure of callMcpTool inside execute (callTool or the connection
\* throwing) becomes the tool result "Error executing tool: <message>" and
\* never a 500; a 500 comes only from the request validation, the tool
\* catalog fetch or the model invocation.
C10_ToolFailureAbsorbed ==
    \A r \in Requests :
        /\ \A i \in 1..Len(req[r].log) :
              req[r].log[i].bridge \in {"threw", "connect-failed"} =>
                  /\ req[r].log[i].out =
                        ErrorExecutingText(IF req[r].log[i].bridge = "threw"
                                           THEN CallToolErrorMessage
                                           ELSE ConnectErrorMessage)
                  /\ i <= Len(req[r].steps)
                  /\ req[r].steps[i].outputs = <<req[r].log[i].out>>
        /\ Done(r) =>
              /\ req[r].resp.status \in {200, 500}
              /\ req[r].resp.status = 500 <=>
                    req[r].failedAt \in {"validation", "catalog", "model"}
              /\ req[r].failedAt \in {"none", "validation", "catalog", "model"}

C10_Witness ==
    \E r \in Requests :
        /\ Done(r)
        /\ req[r].resp.status = 200
        /\ \E i \in 1..Len(req[r].log) : req[r].log[i].bridge = "threw"

\* the i-th execute of the request failed: the bridge's result has isError
\* set, or callMcpTool threw
FailedExecution(r, i) ==
    \/ req[r].log[i].bridge \in {"threw", "connect-failed"}
    \/ req[r].log[i].bridge = "returned" /\ req[r].log[i].result.isError

\* C11 as stated: whenever an execute of the request failed (isError with or
\* without text content, or the call threw), the final text is empty and no
\* payload was found, the response content is "There was an issue: "
\* followed by the text execute returned for a failed execution.
C11_ToolFailureSurfaced ==
    \A r \in Requests :
        (/\ Answered(r)
         /\ req[r].text = <<>>
         /\ req[r].td = Null
         /\ \E i \in 1..Len(req[r].log) : FailedExecution(r, i)) =>
            \E i \in 1..Len(req[r].log) :
                /\ FailedExecution(r, i)
                /\ req[r].resp.content = IssueText(req[r].log[i].out)

\* C12: the loop of a request ends: once generateText has started, the
\* request is answered; it never makes more than MaxSteps (5) rounds, and
\* when generateText returns, either the last round made no tool call or it
\* was the round MaxSteps.
C12_LoopEndsWithinCap ==
    /\ [](\A r \in Requests :
            /\ Len(req[r].steps) <= MaxSteps
            /\ Len(req[r].log) <= MaxSteps
            /\ req[r].pc \in {"model", "connecting_tool", "calling"} =>
                  Len(req[r].steps) < MaxSteps
            /\ Answered(r) =>
                  \/ req[r].steps[Len(req[r].steps)].calls = 0
                  \/ Len(req[r].steps) = MaxSteps)
    /\ \A r \in Requests : (req[r].pc = "model") ~> Done(r)

C12_Witness ==
    \E r \in Requests :
        /\ Answered(r)
        /\ Len(req[r].steps) = MaxSteps
        /\ req[r].steps[MaxSteps].calls = 1
        /\ Len(req[r].log) = MaxSteps

\* C13 as stated: every tool_result response reports an object with a
\* transaction key, which is the value of a tool-result output of the step
\* history or of a JSON object in the final text.
C13_PayloadHasTransactionKey ==
    \A r \in Requests :
        Done(r) /\ req[r].resp.type = "tool_result" =>
            /\ IsTransactionJson(req[r].resp.text)
            /\ req[r].td.k = "obj"
            /\ Get(req[r].td, "transaction") # Undefined

\* the output is the JSON of an array (the old format of tool results)
IsArrayJson(out) == JSONParse(out).ok /\ JSONParse(out).val.k = "arr"

Max(set) == CHOOSE x \in set : \A y \in set : y <= x

Found(r) == ScanSteps(req[r].steps, ScanInit)

\* C15: with an empty final text the content is the prepared-transaction
\* message when the step history held a payload; else "There was an issue: "
\* with the tool error when one was recorded; else, when a step made a tool
\* call, "Tool result: " with the last tool result or the no-data message;
\* else it stays empty and the reply has type "text".
C15_ContentByPriority ==
    \A r \in Requests :
        Answered(r) /\ req[r].text = <<>> =>
            IF Found(r).td # Null
            THEN req[r].resp.content = PreparedText(Found(r).td)
            ELSE IF Found(r).te # <<>>
            THEN req[r].resp.content = IssueText(Found(r).te)
            ELSE IF \E i \in 1..Len(req[r].steps) : req[r].steps[i].calls > 0
            THEN req[r].resp.content \in
                     {NoDataText,
                      <<ToolResultPrefix>> \o LastResultText(req[r].steps, <<>>)}
            ELSE /\ req[r].resp.content = <<>>
                 /\ req[r].resp.type = "text"

C15_Witness ==
    \E r \in Requests :
        /\ Answered(r) /\ req[r].text = <<>>
        /\ Len(req[r].log) = 2
        /\ Found(r).td = Null
        /\ req[r].te = ExecuteResultText(ResultUnexpected)
        /\ AllOutputs(req[r].steps)[2] = ExecuteResultText(ResultPlain)
        /\ req[r].resp.content = IssueText(req[r].te)

\* C16: a payload found in the step history is the payload reported,
\* whatever JSON object the final text holds: the response's transaction is
\* the tool's, never the one of the text.
C16_StepPayloadNotReplacedByText ==
    \A r \in Requests :
        Answered(r) /\ Found(r).td # Null =>
            /\ req[r].td = Found(r).td
            /\ req[r].resp.type = "tool_result"
            /\ JSONParse(req[r].resp.text).ok
            /\ JSONParse(req[r].resp.text).val = Found(r).td
            /\ req[r].text # <<>> => req[r].resp.content = req[r].text

C16_Witness ==
    \E r \in Requests :
        /\ Answered(r)
        /\ req[r].text = TextFenced
        /\ AllOutputs(req[r].steps) = <<TxCreate>>
        /\ req[r].resp.type = "tool_result"
        /\ Get(JSONParse(req[r].resp.text).val, "transaction") = Str(<<P("T1")>>)
        /\ req[r].resp.content = TextFenced

\* C17: a non-empty final text is the response content, unchanged, whether
\* or not the step history held a payload or a tool error; the content
\* differs from the final text only when the final text is empty.
C17_NonEmptyTextUnchanged ==
    \A r \in Requests :
        Answered(r) =>
            /\ req[r].text # <<>> => req[r].resp.content = req[r].text
            /\ req[r].resp.content # req[r].text => req[r].text = <<>>

C17_Witness ==
    \E r \in Requests :
        /\ Answered(r)
        /\ req[r].text = TextPlain
        /\ Found(r).td # Null
        /\ Found(r).te # <<>>
        /\ req[r].resp.type = "tool_result"
        /\ req[r].resp.content = TextPlain

Connecting(r) == req[r].pc \in {"connecting_catalog", "connecting_tool"}

\* C18 as stated: no connection exists before the first getMcpClient call
\* and a connection is only opened by a call that found the handle unset;
\* once the handle is memoized it is never changed and no further
\* connection is opened; the client a call returns is the memoized handle;
\* a step that opens no connection (a failed connect among them) leaves
\* the handle as it was, unset when it was unset.
C18_LazyAndReusedConnection ==
    /\ []((\A r \in Requests : req[r].pc = "idle") =>
              mcpClient = 0 /\ connections = 0)
    /\ [][/\ mcpClient # 0 =>
                /\ mcpClient' = mcpClient
                /\ connections' = connections
          /\ connections' # connections =>
                /\ connections' = connections + 1
                /\ \E r \in Requests : Connecting(r) /\ ~Connecting(r)'
          /\ connections' = connections => mcpClient' = mcpClient
          /\ \A r \in Requests :
                req[r].client' # req[r].client => req[r].client' = mcpClient'
         ]_vars

====
